---- MODULE Spec2Model ----
(***************************************************************************)
(* The query surface of the safety-law tracker: the LawTracker component   *)
(* (src/src/LawTracker.jsx: load of /data/items.json, filter, search,      *)
(* score and sort) and the SafetyLawTracker component                      *)
(* (src/safety-law-tracker-fixed.jsx: the fixed sampleRevisions fixture,   *)
(* search and stage filter).  The refresh pipeline that writes the         *)
(* snapshot (merge engine and store) is no part of these sources; it is    *)
(* modelled from its specification.                                        *)
(*                                                                         *)
(* Conventions.  A JavaScript value that may be missing (undefined, null)  *)
(* is a sequence of length 0 (missing) or 1 (present).  A JavaScript       *)
(* number is a record [nan, v]: NaN is [nan |-> TRUE].  Time stamps        *)
(* (Date.getTime) are kept in hours instead of milliseconds.  The texts of *)
(* LawTracker are strings; the Japanese texts of the fixture are sequences *)
(* of UTF-16 code units.                                                   *)
(***************************************************************************)
EXTENDS Integers, Sequences, FiniteSets, TLC

VARIABLES
    items,              \* LawTracker: useState([]), the snapshot
    q,                  \* LawTracker: useState(""), the search box
    process,            \* LawTracker: useState("all"), the stage filter
    action,             \* LawTracker: useState("all"), the action filter
    fetchState,         \* LawTracker: the fetch of the mount effect
    response,           \* LawTracker: the JSON the fetch resolved with
    filtered,           \* LawTracker: the value of the useMemo, as rendered
    searchTerm,         \* SafetyLawTracker: useState("")
    selectedStage,      \* SafetyLawTracker: useState("all")
    showProcessDetails, \* SafetyLawTracker: useState(false)
    expandedRevision,   \* SafetyLawTracker: useState(null)
    filteredRevisions,  \* SafetyLawTracker: the filter result, as rendered
    stageCounts,        \* SafetyLawTracker: the count of each stage, as rendered
    store,              \* pipeline: the snapshot the Store publishes
    pc,                 \* pipeline: where each refresh is
    work,               \* pipeline: what each refresh has collected and merged
    sightings           \* pipeline: per id, the refreshes since it was reported

lawVars == <<items, q, process, action, fetchState, response, filtered>>
fixedVars == <<searchTerm, selectedStage, showProcessDetails, expandedRevision,
               filteredRevisions, stageCounts>>
pipeVars == <<store, pc, work, sightings>>
vars == <<items, q, process, action, fetchState, response, filtered, searchTerm,
          selectedStage, showProcessDetails, expandedRevision, filteredRevisions,
          stageCounts, store, pc, work, sightings>>

-----------------------------------------------------------------------------
(* Bounds of the model.                                                    *)

\* The longest array /data/items.json holds.
MaxItems == 3

\* The day (days since the epoch) on which the component renders.
Today == 200

\* The retention threshold the pipeline is configured with.
RetentionThreshold == 2

-----------------------------------------------------------------------------
(* JavaScript values.                                                      *)

Missing == <<>>
Some(v) == <<v>>
Truthy(o) == o /= Missing /\ o[1] /= ""

Num(v) == [nan |-> FALSE, v |-> v]
NaN == [nan |-> TRUE, v |-> 0]

Abs(n) == IF n < 0 THEN -n ELSE n

\* 1000 * 60 * 60 * 24 ms, in hours.
MsPerDay == 24

\* A date string: the time stamp it parses to, or one that does not parse.
DateAt(day, hour) == [parses |-> TRUE, t |-> day * MsPerDay + hour]
BadDate == [parses |-> FALSE, t |-> 0]

\* new Date(s).getTime()
GetTime(s) == IF s.parses THEN Num(s.t) ELSE NaN

\* new Date().toISOString().slice(0, 10): the date of today, no time of day.
NowString(day) == DateAt(day, 0)

daysBetween(a, b) ==
    LET ta == GetTime(a)
        tb == GetTime(b)
    IN  IF ta.nan \/ tb.nan THEN NaN ELSE Num(Abs(ta.v - tb.v) \div MsPerDay)

\* Math.min(100, n)
MathMin100(n) == IF n.nan THEN NaN ELSE Num(IF n.v < 100 THEN n.v ELSE 100)

-----------------------------------------------------------------------------
(* Strings.                                                                *)

\* String.prototype.includes, also over sequences of code units.
Includes(s, sub) ==
    \E i \in 0..(Len(s) - Len(sub)) : SubSeq(s, i + 1, i + Len(sub)) = sub

RECURSIVE TrimStart(_)
TrimStart(s) ==
    IF Len(s) > 0 /\ SubSeq(s, 1, 1) = " " THEN TrimStart(SubSeq(s, 2, Len(s))) ELSE s

RECURSIVE TrimEnd(_)
TrimEnd(s) ==
    IF Len(s) > 0 /\ SubSeq(s, Len(s), Len(s)) = " "
    THEN TrimEnd(SubSeq(s, 1, Len(s) - 1))
    ELSE s

\* String.prototype.trim
Trim(s) == TrimEnd(TrimStart(s))

\* Array.prototype.join(" ") of an array of strings
RECURSIVE Join(_)
Join(parts) ==
    IF Len(parts) = 0 THEN ""
    ELSE IF Len(parts) = 1 THEN parts[1]
    ELSE parts[1] \o " " \o Join(Tail(parts))

\* Array.prototype.filter(Boolean) of an array of strings
FilterBoolean(parts) == SelectSeq(parts, LAMBDA s : s /= "")

-----------------------------------------------------------------------------
(* LawTracker: the records /data/items.json may hold.  The component reads *)
(* title, topic, law_family, summary_3, target, tags, process, action and  *)
(* updated_at of an item, and guards each of them against being missing.   *)

Item(id, title, topic, law_family, summary_3, target, tags, proc, act, updated_at) ==
    [null |-> FALSE, id |-> id, title |-> title, topic |-> topic,
     law_family |-> law_family, summary_3 |-> summary_3, target |-> target,
     tags |-> tags, process |-> proc, action |-> act, updated_at |-> updated_at]

\* A null entry of the array.
NullItem ==
    [null |-> TRUE, id |-> 0, title |-> Missing, topic |-> Missing,
     law_family |-> Missing, summary_3 |-> Missing, target |-> Missing,
     tags |-> Missing, process |-> Missing, action |-> Missing,
     updated_at |-> Missing]

ItemA ==
    Item(1, Some("AB"), Missing, Some("CD"), Some(<<>>), Missing,
         Some(<<"reviewed">>), Some("promulgated"), Some("ACT_NOW"),
         Some(DateAt(Today + 1, 9)))
ItemB ==
    Item(2, Some("XY"), Some("AB"), Missing, Some(<<"B C">>), Some(<<"Z">>),
         Missing, Some("promulgated"), Some("WATCH"),
         Some(DateAt(Today - 150, 0)))
ItemC ==
    Item(3, Some("XY"), Missing, Some(""), Some(<<"", "W">>), Missing,
         Some(<<"needs_review">>), Some("enforced"), Some("WATCH"),
         Some(DateAt(Today - 120, 0)))
ItemD ==
    Item(1, Some("AB"), Missing, Missing, Missing, Missing, Missing,
         Some("promulgated"), Missing, Missing)
ItemE ==
    Item(5, Missing, Some("B"), Some("C"), Missing, Some(<<"XY">>), Missing,
         Some("draft"), Some("FOO"), Some(BadDate))

Items == {NullItem, ItemA, ItemB, ItemC, ItemD, ItemE}

\* Every array of at most n entries.
RECURSIVE ArraysUpTo(_)
ArraysUpTo(n) ==
    IF n = 0 THEN {<<>>}
    ELSE LET shorter == ArraysUpTo(n - 1)
         IN  shorter \cup {Append(a, it) : a \in {b \in shorter : Len(b) = n - 1},
                                            it \in Items}

\* What r.json() resolves to: an array, or JSON that is no array.
Payloads ==
    {[isArray |-> TRUE, elems |-> a] : a \in ArraysUpTo(MaxItems)}
        \cup {[isArray |-> FALSE, elems |-> <<>>]}

\* What the search box, and the two selects, may be set to.
SearchInputs == {"", " ", "B", "B C"}
ProcessInputs == {"all", "promulgated", "draft"}
ActionInputs == {"all", "WATCH", "FOO"}

\* The options of the two selects.
ProcessOptions ==
    {"policy", "public_comment", "diet", "promulgated", "enforcement_planned",
     "enforced"}
ActionOptions == {"WATCH", "PREPARE", "ACT_NOW", "CLOSE"}

-----------------------------------------------------------------------------
(* LawTracker: filtered.                                                   *)

OptString(o) == IF o = Missing THEN <<>> ELSE <<o[1]>>
OrEmpty(o) == IF o = Missing THEN <<>> ELSE o[1]

\* Blob as it would be with the topic left out of the array.
BlobWithoutTopic(it) ==
    Join(FilterBoolean(OptString(it.title) \o OptString(it.law_family)
                       \o OrEmpty(it.summary_3) \o OrEmpty(it.target)
                       \o OrEmpty(it.tags)))

\* The blob of an item: its texts, the falsy ones dropped, joined by spaces.
Blob(it) ==
    Join(FilterBoolean(OptString(it.title) \o OptString(it.topic)
                       \o OptString(it.law_family) \o OrEmpty(it.summary_3)
                       \o OrEmpty(it.target) \o OrEmpty(it.tags)))

\* Keeps as it would be with the two filter tests merged into one by &&: an
\* item is dropped only when it fails both filters.
KeepsEitherFilter(it, qq, proc, act) ==
    IF it.null THEN FALSE
    ELSE IF /\ proc /= "all" /\ it.process /= Some(proc)
            /\ act /= "all" /\ it.action /= Some(act) THEN FALSE
    ELSE IF qq = "" THEN TRUE
    ELSE Includes(Blob(it), qq)

\* Keeps as it would be if a filter that is no option of its select matched
\* nothing.
KeepsKnownOnly(it, qq, proc, act) ==
    IF it.null THEN FALSE
    ELSE IF proc /= "all" /\ (proc \notin ProcessOptions \/ it.process /= Some(proc))
    THEN FALSE
    ELSE IF act /= "all" /\ (act \notin ActionOptions \/ it.action /= Some(act))
    THEN FALSE
    ELSE IF qq = "" THEN TRUE
    ELSE Includes(Blob(it), qq)

\* The callback of items.filter, with qq the trimmed search text.
Keeps(it, qq, proc, act) ==
    IF it.null THEN FALSE
    ELSE IF proc /= "all" /\ it.process /= Some(proc) THEN FALSE
    ELSE IF act /= "all" /\ it.action /= Some(act) THEN FALSE
    ELSE IF qq = "" THEN TRUE
    ELSE Includes(Blob(it), qq)

\* Act as it would be without the fallback.
ActNoFallback(it) == IF it.action /= Missing THEN it.action[1] ELSE ""

\* it.action || "WATCH"
Act(it) == IF Truthy(it.action) THEN it.action[1] ELSE "WATCH"

ActScore(it) ==
    LET act == Act(it)
    IN  IF act = "ACT_NOW" THEN 4
        ELSE IF act = "PREPARE" THEN 3
        ELSE IF act = "WATCH" THEN 2
        ELSE 1

\* 100 - Math.min(100, daysBetween(updated, now))
Recency(it, now) ==
    LET updated == IF it.updated_at /= Missing THEN it.updated_at[1] ELSE now
        capped == MathMin100(daysBetween(updated, now))
    IN  IF capped.nan THEN NaN ELSE Num(100 - capped.v)

\* actScore * 1000 + recency
Score(it, now) ==
    LET recency == Recency(it, now)
    IN  IF recency.nan THEN NaN ELSE Num(ActScore(it) * 1000 + recency.v)

\* The callback of map: the item with its score.
Scored(it, now) == [it |-> it, score |-> Score(it, now)]

\* The comparator (a, b) => b.score - a.score as Array.prototype.sort reads
\* it: a NaN result counts as +0.
Compare(a, b) ==
    IF a.score.nan \/ b.score.nan THEN 0 ELSE b.score.v - a.score.v


\* Whether the comparator is a consistent comparison function for the
\* elements of arr (ECMAScript, Array.prototype.sort).
ConsistentComparator(arr) ==
    \A i, j, k \in 1..Len(arr) :
        /\ Compare(arr[i], arr[i]) = 0
        /\ (Compare(arr[i], arr[j]) = 0) = (Compare(arr[j], arr[i]) = 0)
        /\ (Compare(arr[i], arr[j]) < 0) = (Compare(arr[j], arr[i]) > 0)
        /\ Compare(arr[i], arr[j]) = 0 /\ Compare(arr[j], arr[k]) = 0
               => Compare(arr[i], arr[k]) = 0
        /\ Compare(arr[i], arr[j]) < 0 /\ Compare(arr[j], arr[k]) < 0
               => Compare(arr[i], arr[k]) < 0

\* x put into the sorted array, behind every element it does not precede.
RECURSIVE InsertSorted(_, _)
InsertSorted(sorted, x) ==
    IF Len(sorted) = 0 THEN <<x>>
    ELSE IF Compare(x, Head(sorted)) < 0 THEN <<x>> \o sorted
    ELSE <<Head(sorted)>> \o InsertSorted(Tail(sorted), x)

\* The stable sort of arr by the comparator.
RECURSIVE StableSort(_)
StableSort(arr) ==
    IF Len(arr) = 0 THEN <<>>
    ELSE InsertSorted(StableSort(SubSeq(arr, 1, Len(arr) - 1)), arr[Len(arr)])

Arrangements(n) ==
    {f \in [1..n -> 1..n] : \A i, j \in 1..n : f[i] = f[j] => i = j}

\* Array.prototype.sort with the comparator: the stable sort when the
\* comparator is consistent; otherwise the order is implementation-defined,
\* any arrangement of the elements.
SortOutcomes(arr) ==
    IF ConsistentComparator(arr) THEN {StableSort(arr)}
    ELSE {[i \in 1..Len(arr) |-> arr[f[i]]] : f \in Arrangements(Len(arr))}

\* The array items.filter(...).map(...) builds.
ScoredItems(its, qv, proc, act, day) ==
    LET kept == SelectSeq(its, LAMBDA it : Keeps(it, Trim(qv), proc, act))
    IN  [i \in 1..Len(kept) |-> Scored(kept[i], NowString(day))]

\* The values the useMemo may take: sorted, and mapped back to the items.
Filtered(its, qv, proc, act, day) ==
    {[i \in 1..Len(s) |-> s[i].it] :
        s \in SortOutcomes(ScoredItems(its, qv, proc, act, day))}

\* ItemsAfterQuery as it would be if the result were written back to items.
ItemsOverwritten(its, result) == result

\* What the query leaves in items: filter and map build new arrays, and sort
\* sorts the array map built.
ItemsAfterQuery(its, result) == its

\* Array.isArray(j) ? j : []
ArrayOrEmpty(j) == IF j.isArray THEN j.elems ELSE <<>>

\* SetItems as it would be if the records were added one at a time, each
\* addition being a state of its own: the state after the first.
SetItemsIncremental(old, new) == IF Len(new) > 1 THEN Append(old, new[1]) ELSE new

\* setItems: the state is replaced by the new array as a whole.
SetItems(old, new) == new

-----------------------------------------------------------------------------------------------------------------------------------------------------
(* LawTracker: the handlers.  React renders the component again after each *)
(* of them, which evaluates the useMemo on the new state.  The callbacks   *)
(* of the promise chain run as microtasks: no handler runs between the     *)
(* JSON being parsed and setItems.                                         *)

\* The render after a handler: the useMemo over the snapshot its.
Query(its) ==
    \E result \in Filtered(its, q', process', action', Today) :
        /\ filtered' = result
        /\ items' = ItemsAfterQuery(its, result)

\* The fetch of the mount effect and r.json() resolve with JSON j.
FetchResolved(j) ==
    /\ fetchState = "pending"
    /\ fetchState' = "done"
    /\ response' = Some(j)
    /\ UNCHANGED <<q, process, action>>
    /\ Query(SetItems(items, ArrayOrEmpty(j)))
    /\ UNCHANGED fixedVars
    /\ UNCHANGED pipeVars

\* The fetch, or r.json(), fails: .catch(() => setItems([])).
FetchFailed ==
    /\ fetchState = "pending"
    /\ fetchState' = "failed"
    /\ UNCHANGED <<q, process, action, response>>
    /\ Query(SetItems(items, <<>>))
    /\ UNCHANGED fixedVars
    /\ UNCHANGED pipeVars

\* onChange of the search box.
SetQ(v) ==
    /\ v /= q
    /\ q' = v
    /\ UNCHANGED <<process, action, fetchState, response>>
    /\ Query(items)
    /\ UNCHANGED fixedVars
    /\ UNCHANGED pipeVars

\* onChange of the process select.
SetProcess(v) ==
    /\ v /= process
    /\ process' = v
    /\ UNCHANGED <<q, action, fetchState, response>>
    /\ Query(items)
    /\ UNCHANGED fixedVars
    /\ UNCHANGED pipeVars

\* onChange of the action select.
SetAction(v) ==
    /\ v /= action
    /\ action' = v
    /\ UNCHANGED <<q, process, fetchState, response>>
    /\ Query(items)
    /\ UNCHANGED fixedVars
    /\ UNCHANGED pipeVars

-----------------------------------------------------------------------------
(* SafetyLawTracker: the fixture.  Texts are sequences of UTF-16 code      *)
(* units.                                                                  *)

\* The ids of revisionStages, in their order.
revisionStages ==
    <<"consideration", "public_comment", "deliberation", "promulgated",
      "enforcement_scheduled", "enforced">>

Revision0 ==
    [id |-> 0,
     \* 労働安全衛生規則
     lawName |->
         <<21172, 20685, 23433, 20840, 34907, 29983, 35215, 21063>>,
     \* AI・ロボット技術の進展に伴う安全規制の在り方検討
     title |->
         <<65, 73, 12539, 12525, 12508, 12483, 12488, 25216, 34899, 12398,
         36914, 23637, 12395, 20276, 12358, 23433, 20840, 35215, 21046, 12398,
         22312, 12426, 26041, 26908, 35342>>,
     stage |-> "consideration",
     promulgationDate |-> Missing,
     enforcementDate |-> Missing,
     \* 労働政策審議会安全衛生分科会で、AI・協働ロボット等の新技術に対応した安全基準の検討を開始
     description |->
         <<21172, 20685, 25919, 31574, 23529, 35696, 20250, 23433, 20840,
         34907, 29983, 20998, 31185, 20250, 12391, 12289, 65, 73, 12539,
         21332, 20685, 12525, 12508, 12483, 12488, 31561, 12398, 26032, 25216,
         34899, 12395, 23550, 24540, 12375, 12383, 23433, 20840, 22522, 28310,
         12398, 26908, 35342, 12434, 38283, 22987>>,
     highlights |-> Missing]

Revision1 ==
    [id |-> 1,
     \* 労働安全衛生法及び作業環境測定法
     lawName |->
         <<21172, 20685, 23433, 20840, 34907, 29983, 27861, 21450, 12403,
         20316, 26989, 29872, 22659, 28204, 23450, 27861>>,
     \* 労働安全衛生法及び作業環境測定法の一部を改正する法律（令和7年法律第33号）
     title |->
         <<21172, 20685, 23433, 20840, 34907, 29983, 27861, 21450, 12403,
         20316, 26989, 29872, 22659, 28204, 23450, 27861, 12398, 19968, 37096,
         12434, 25913, 27491, 12377, 12427, 27861, 24459, 65288, 20196, 21644,
         55, 24180, 27861, 24459, 31532, 51, 51, 21495, 65289>>,
     stage |-> "promulgated",
     promulgationDate |-> Some("2025-05-14"),
     enforcementDate |-> Some("2026-04-01"),
     \* 個人事業者等に対する安全衛生対策の推進、50人未満事業場でのストレスチェック義務化など
     description |->
         <<20491, 20154, 20107, 26989, 32773, 31561, 12395, 23550, 12377,
         12427, 23433, 20840, 34907, 29983, 23550, 31574, 12398, 25512, 36914,
         12289, 53, 48, 20154, 26410, 28288, 20107, 26989, 22580, 12391,
         12398, 12473, 12488, 12524, 12473, 12481, 12455, 12483, 12463, 32681,
         21209, 21270, 12394, 12393>>,
     highlights |-> Some(<<
         \* フリーランスへの安全衛生対策
         <<12501, 12522, 12540, 12521, 12531, 12473, 12408, 12398, 23433,
         20840, 34907, 29983, 23550, 31574>>,
         \* 50人未満事業場でのストレスチェック義務化
         <<53, 48, 20154, 26410, 28288, 20107, 26989, 22580, 12391, 12398,
         12473, 12488, 12524, 12473, 12481, 12455, 12483, 12463, 32681, 21209,
         21270>>,
         \* 化学物質管理の強化
         <<21270, 23398, 29289, 36074, 31649, 29702, 12398, 24375, 21270>>
         >>)]

Revision2 ==
    [id |-> 2,
     \* 労働安全衛生規則
     lawName |->
         <<21172, 20685, 23433, 20840, 34907, 29983, 35215, 21063>>,
     \* 労働安全衛生規則の一部改正（熱中症対策の強化）
     title |->
         <<21172, 20685, 23433, 20840, 34907, 29983, 35215, 21063, 12398,
         19968, 37096, 25913, 27491, 65288, 29105, 20013, 30151, 23550, 31574,
         12398, 24375, 21270, 65289>>,
     stage |-> "enforced",
     promulgationDate |-> Some("2025-05-20"),
     enforcementDate |-> Some("2025-06-01"),
     \* 職場における熱中症対策の強化について、WBGT値に基づく予防措置の義務化
     description |->
         <<32887, 22580, 12395, 12362, 12369, 12427, 29105, 20013, 30151,
         23550, 31574, 12398, 24375, 21270, 12395, 12388, 12356, 12390, 12289,
         87, 66, 71, 84, 20516, 12395, 22522, 12389, 12367, 20104, 38450,
         25514, 32622, 12398, 32681, 21209, 21270>>,
     highlights |-> Missing]

Revision3 ==
    [id |-> 3,
     \* 特定化学物質障害予防規則等
     lawName |->
         <<29305, 23450, 21270, 23398, 29289, 36074, 38556, 23475, 20104,
         38450, 35215, 21063, 31561>>,
     \* 化学物質による労働災害防止のための新たな規制
     title |->
         <<21270, 23398, 29289, 36074, 12395, 12424, 12427, 21172, 20685,
         28797, 23475, 38450, 27490, 12398, 12383, 12417, 12398, 26032, 12383,
         12394, 35215, 21046>>,
     stage |-> "enforcement_scheduled",
     promulgationDate |-> Some("2024-02-24"),
     enforcementDate |-> Some("2026-04-01"),
     \* ラベル表示・SDS交付義務対象物質の追加（約700物質追加、合計約1,600物質）
     description |->
         <<12521, 12505, 12523, 34920, 31034, 12539, 83, 68, 83, 20132, 20184,
         32681, 21209, 23550, 35937, 29289, 36074, 12398, 36861, 21152, 65288,
         32004, 55, 48, 48, 29289, 36074, 36861, 21152, 12289, 21512, 35336,
         32004, 49, 44, 54, 48, 48, 29289, 36074, 65289>>,
     highlights |-> Some(<<
         \* 2026年4月：さらに約850物質追加予定
         <<50, 48, 50, 54, 24180, 52, 26376, 65306, 12373, 12425, 12395,
         32004, 56, 53, 48, 29289, 36074, 36861, 21152, 20104, 23450>>,
         \* SDS交付義務違反への罰則新設
         <<83, 68, 83, 20132, 20184, 32681, 21209, 36949, 21453, 12408, 12398,
         32624, 21063, 26032, 35373>>,
         \* 化学物質管理者の選任義務
         <<21270, 23398, 29289, 36074, 31649, 29702, 32773, 12398, 36984,
         20219, 32681, 21209>>
         >>)]

sampleRevisions == <<Revision0, Revision1, Revision2, Revision3>>

\* What the search box may be set to: nothing, a space, and four texts.
\* "化学物質"
TermKagakuBusshitsu == <<21270, 23398, 29289, 36074>>
\* "特定化学物質"
TermTokuteiKagaku == <<29305, 23450, 21270, 23398, 29289, 36074>>
\* "義務化"
TermGimuka == <<32681, 21209, 21270>>
\* "熱中症"
TermNecchusho == <<29105, 20013, 30151>>

\* " "
TermSpace == <<32>>

FixedSearchInputs ==
    {<<>>, TermSpace, TermKagakuBusshitsu, TermTokuteiKagaku, TermGimuka,
     TermNecchusho}

\* What the stage select offers.
StageOptions == {"all"} \cup {revisionStages[i] : i \in 1..Len(revisionStages)}

-----------------------------------------------------------------------------
(* SafetyLawTracker: filteredRevisions and the handlers.  The component    *)
(* computes filteredRevisions anew on every render.                        *)

\* The callback of sampleRevisions.filter.
MatchesRevision(revision, term, stage) ==
    LET matchesSearch ==
            Includes(revision.title, term) \/ Includes(revision.description, term)
        matchesStage == stage = "all" \/ revision.stage = stage
    IN  matchesSearch /\ matchesStage

FilteredRevisions(term, stage) ==
    SelectSeq(sampleRevisions, LAMBDA revision : MatchesRevision(revision, term, stage))

\* CountedRevisions as it would be if the counts were taken over the
\* revisions shown.
CountedShown(shown) == shown

\* The array the count of a stage is taken over: sampleRevisions, whatever
\* is shown.
CountedRevisions(shown) == sampleRevisions

\* arr.filter(r => r.stage === id).length
StageCount(arr, id) == Cardinality({i \in DOMAIN arr : arr[i].stage = id})

\* The counts the process flow shows, in the order of revisionStages.
StageCounts(shown) ==
    [i \in DOMAIN revisionStages |->
        StageCount(CountedRevisions(shown), revisionStages[i])]

RenderFixed ==
    /\ filteredRevisions' = FilteredRevisions(searchTerm', selectedStage')
    /\ stageCounts' = StageCounts(filteredRevisions')

\* onChange of the search box.
SetSearchTerm(v) ==
    /\ v /= searchTerm
    /\ searchTerm' = v
    /\ UNCHANGED <<selectedStage, showProcessDetails, expandedRevision>>
    /\ RenderFixed
    /\ UNCHANGED lawVars
    /\ UNCHANGED pipeVars

\* onChange of the stage select.
SetSelectedStage(v) ==
    /\ v /= selectedStage
    /\ selectedStage' = v
    /\ UNCHANGED <<searchTerm, showProcessDetails, expandedRevision>>
    /\ RenderFixed
    /\ UNCHANGED lawVars
    /\ UNCHANGED pipeVars

\* onClick of the button of stage id in the process flow.
ClickStage(id) ==
    /\ selectedStage' = IF selectedStage = id THEN "all" ELSE id
    /\ UNCHANGED <<searchTerm, showProcessDetails, expandedRevision>>
    /\ RenderFixed
    /\ UNCHANGED lawVars
    /\ UNCHANGED pipeVars

\* onClick of the button that shows or hides the explanations.
ToggleProcessDetails ==
    /\ showProcessDetails' = ~showProcessDetails
    /\ UNCHANGED <<searchTerm, selectedStage, expandedRevision>>
    /\ RenderFixed
    /\ UNCHANGED lawVars
    /\ UNCHANGED pipeVars

\* onClick of the card of a revision that is shown.
ClickRevision(i) ==
    /\ i \in 1..Len(filteredRevisions)
    /\ LET revision == filteredRevisions[i]
           isExpanded == expandedRevision = Some(revision.id)
       IN  expandedRevision' = IF isExpanded THEN Missing ELSE Some(revision.id)
    /\ UNCHANGED <<searchTerm, selectedStage, showProcessDetails>>
    /\ RenderFixed
    /\ UNCHANGED lawVars
    /\ UNCHANGED pipeVars

-----------------------------------------------------------------------------
(* The refresh pipeline: merge engine and store, modelled from their       *)
(* specification.  A record of the store is kept under its id, with its    *)
(* description, the tags its source reports, the tags the operator set,    *)
(* and its miss counter.  A refresh is requested, starts when no other     *)
(* refresh runs, collects the new set and merges it with the snapshot it   *)
(* reads, and writes the merged set by one swap; the write may fail.  The  *)
(* store has one writer: the operator's tag mutation does not run between  *)
(* the merge of a refresh and its write.                                   *)

\* The ids the sources report.
RecordIds == {1, 2}

\* What triggers a refresh: the recurring task, and a request on demand.
Refreshers == {"timer", "demand"}

\* The tag the operator sets.
OperatorTags == {"reviewed"}

\* What a source reports of a record: an earlier and a later scrape.
ScrapeOld == [description |-> "old", tags |-> {}]
ScrapeNew == [description |-> "new", tags |-> {"needs_review"}]
Scrapes == {ScrapeOld, ScrapeNew}

\* The sets a refresh may collect: a scrape for some of the ids.
NewSets == UNION {[S -> Scrapes] : S \in SUBSET RecordIds}

\* The empty record set.
EmptySet == [id \in {} |-> ScrapeOld]

\* The tags of a stored record.
TagsOf(rec) == rec.tags \cup rec.operatorTags

\* Retained as it would be if a record were dropped only once its counter
\* is above the threshold.
RetainedUntilExceeds(rec) == rec.misses + 1 <= RetentionThreshold

\* Whether a record that is missing from this refresh stays: it is dropped
\* with the miss that makes RetentionThreshold consecutive ones.
Retained(rec) == rec.misses + 1 < RetentionThreshold

\* MergeBoth as it would be if the new record replaced the stored one.
MergeBothOverwritten(prev, new) ==
    [description |-> new.description, tags |-> new.tags, operatorTags |-> {},
     misses |-> 0]

\* An id present in both sets: the new descriptive fields, the operator's
\* tags of the stored record, the miss counter back at zero.
MergeBoth(prev, new) ==
    [description |-> new.description, tags |-> new.tags,
     operatorTags |-> prev.operatorTags, misses |-> 0]

\* An id only in the new set: inserted as it is.
MergeFirstSighting(new) ==
    [description |-> new.description, tags |-> new.tags, operatorTags |-> {},
     misses |-> 0]

\* An id only in the previous set, and retained: one more miss.
MergeMissing(prev) == [prev EXCEPT !.misses = @ + 1]

merge(previousSet, newSet) ==
    LET kept == {id \in DOMAIN previousSet :
                    id \in DOMAIN newSet \/ Retained(previousSet[id])}
    IN  [id \in kept \cup DOMAIN newSet |->
            IF id \in DOMAIN previousSet /\ id \in DOMAIN newSet
            THEN MergeBoth(previousSet[id], newSet[id])
            ELSE IF id \in DOMAIN newSet THEN MergeFirstSighting(newSet[id])
            ELSE MergeMissing(previousSet[id])]

\* The refreshes that are in flight.
InFlight == {r \in Refreshers : pc[r] \in {"collecting", "merged"}}

\* CanStart as it would be without the rule of one refresh at a time.
CanStartUnlocked(r) == TRUE

\* A requested refresh starts when no refresh is in flight; until then it
\* is queued.
CanStart(r) == InFlight = {}

\* What a refresh holds while it has nothing collected.
NoWork == [incoming |-> EmptySet, merged |-> EmptySet]

\* The log of sightings after a refresh that reported newSet was written.
Sighted(log, newSet) ==
    [id \in RecordIds |->
        IF id \in DOMAIN newSet THEN [seen |-> TRUE, unseen |-> 0]
        ELSE IF log[id].seen /\ log[id].unseen < RetentionThreshold
        THEN [log[id] EXCEPT !.unseen = @ + 1]
        ELSE log[id]]

\* A refresh is requested.
RequestRefresh(r) ==
    /\ pc[r] = "idle"
    /\ pc' = [pc EXCEPT ![r] = "waiting"]
    /\ UNCHANGED <<store, work, sightings>>
    /\ UNCHANGED lawVars
    /\ UNCHANGED fixedVars

\* A requested refresh starts.
StartRefresh(r) ==
    /\ pc[r] = "waiting"
    /\ CanStart(r)
    /\ pc' = [pc EXCEPT ![r] = "collecting"]
    /\ UNCHANGED <<store, work, sightings>>
    /\ UNCHANGED lawVars
    /\ UNCHANGED fixedVars

\* The adapters have returned newSet: the refresh reads the snapshot and
\* merges.
MergeStep(r, newSet) ==
    /\ pc[r] = "collecting"
    /\ pc' = [pc EXCEPT ![r] = "merged"]
    /\ work' = [work EXCEPT ![r] = [incoming |-> newSet,
                                    merged |-> merge(store, newSet)]]
    /\ UNCHANGED <<store, sightings>>
    /\ UNCHANGED lawVars
    /\ UNCHANGED fixedVars

\* write(mergedSet): the merged set replaces the snapshot by one swap.
WriteStep(r) ==
    /\ pc[r] = "merged"
    /\ store' = work[r].merged
    /\ sightings' = Sighted(sightings, work[r].incoming)
    /\ pc' = [pc EXCEPT ![r] = "idle"]
    /\ work' = [work EXCEPT ![r] = NoWork]
    /\ UNCHANGED lawVars
    /\ UNCHANGED fixedVars

\* StoreUnavailable: the write fails, the refresh is over, the snapshot is
\* the one before it.
StoreUnavailable(r) ==
    /\ pc[r] = "merged"
    /\ pc' = [pc EXCEPT ![r] = "idle"]
    /\ work' = [work EXCEPT ![r] = NoWork]
    /\ UNCHANGED <<store, sightings>>
    /\ UNCHANGED lawVars
    /\ UNCHANGED fixedVars

\* No refresh holds a merged set it has not written.
WriterFree == \A r \in Refreshers : pc[r] /= "merged"

\* The operator sets tag t on record id.
SetTag(id, t) ==
    /\ WriterFree
    /\ id \in DOMAIN store
    /\ t \notin store[id].operatorTags
    /\ store' = [store EXCEPT ![id].operatorTags = @ \cup {t}]
    /\ UNCHANGED <<pc, work, sightings>>
    /\ UNCHANGED lawVars
    /\ UNCHANGED fixedVars

\* The operator clears tag t of record id.
ClearTag(id, t) ==
    /\ WriterFree
    /\ id \in DOMAIN store
    /\ t \in store[id].operatorTags
    /\ store' = [store EXCEPT ![id].operatorTags = @ \ {t}]
    /\ UNCHANGED <<pc, work, sightings>>
    /\ UNCHANGED lawVars
    /\ UNCHANGED fixedVars

InitPipeline ==
    /\ store = EmptySet
    /\ pc = [r \in Refreshers |-> "idle"]
    /\ work = [r \in Refreshers |-> NoWork]
    /\ sightings = [id \in RecordIds |-> [seen |-> FALSE, unseen |-> 0]]

\* InitialItems as it would be if the state started with a sample record
\* instead of the empty array.
InitialItemsSample == <<ItemA>>

\* useState([]): the snapshot before the load.
InitialItems == <<>>

InitFixed ==
    /\ searchTerm = <<>>
    /\ selectedStage = "all"
    /\ showProcessDetails = FALSE
    /\ expandedRevision = Missing
    /\ filteredRevisions = FilteredRevisions(<<>>, "all")
    /\ stageCounts = StageCounts(filteredRevisions)

Init ==
    /\ items = InitialItems
    /\ q = ""
    /\ process = "all"
    /\ action = "all"
    /\ fetchState = "pending"
    /\ response = Missing
    /\ filtered = <<>>
    /\ InitFixed
    /\ InitPipeline

Next ==
    \/ \E j \in Payloads : FetchResolved(j)
    \/ FetchFailed
    \/ \E v \in SearchInputs : SetQ(v)
    \/ \E v \in ProcessInputs : SetProcess(v)
    \/ \E v \in ActionInputs : SetAction(v)

Spec == Init /\ [][Next]_vars

NextFixed ==
    \/ \E v \in FixedSearchInputs : SetSearchTerm(v)
    \/ \E v \in StageOptions : SetSelectedStage(v)
    \/ \E i \in 1..Len(revisionStages) : ClickStage(revisionStages[i])
    \/ ToggleProcessDetails
    \/ \E i \in 1..Len(sampleRevisions) : ClickRevision(i)

SpecFixed == Init /\ [][NextFixed]_vars

NextPipeline ==
    \/ \E r \in Refreshers : RequestRefresh(r)
    \/ \E r \in Refreshers : StartRefresh(r)
    \/ \E r \in Refreshers, newSet \in NewSets : MergeStep(r, newSet)
    \/ \E r \in Refreshers : WriteStep(r)
    \/ \E r \in Refreshers : StoreUnavailable(r)
    \/ \E id \in RecordIds, t \in OperatorTags : SetTag(id, t)
    \/ \E id \in RecordIds, t \in OperatorTags : ClearTag(id, t)

SpecPipeline == Init /\ [][NextPipeline]_vars

-----------------------------------------------------------------------------
(* Properties of the query of LawTracker.                                  *)

\* How often array arr holds x.
Count(arr, x) == Cardinality({i \in DOMAIN arr : arr[i] = x})

\* The objects of the snapshot.
Records == {items[i] : i \in {k \in DOMAIN items : ~items[k].null}}

\* The three criteria of the query in force, each on its own.
StageOk(x) == process = "all" \/ x.process = Some(process)
ActionOk(x) == action = "all" \/ x.action = Some(action)
SearchOk(x) == Trim(q) = "" \/ Includes(Blob(x), Trim(q))

\* C1: the result holds exactly the records of the snapshot that meet the
\* stage filter, the action filter and the search text together, each as
\* often as the snapshot holds it; a filter "all" and an empty search text
\* exclude nothing.
C1_QueryIsConjunction ==
    \A x \in Items :
        Count(filtered, x) =
            IF ~x.null /\ StageOk(x) /\ ActionOk(x) /\ SearchOk(x)
            THEN Count(items, x)
            ELSE 0

\* C1 witness: all three criteria are set, and of three records one is left.
C1_Witness ==
    /\ process = "promulgated" /\ action = "WATCH" /\ q = "B"
    /\ Cardinality(Records) = 3
    /\ Len(filtered) = 1

\* The texts of a record the search reads, one by one.
SearchedFields(x) ==
    LET all == OptString(x.title) \o OptString(x.topic) \o OptString(x.law_family)
                   \o OrEmpty(x.summary_3) \o OrEmpty(x.target) \o OrEmpty(x.tags)
    IN  {all[i] : i \in DOMAIN all}

\* The texts of a record the search is said to read: no topic.
ClaimedFields(x) ==
    LET all == OptString(x.title) \o OptString(x.law_family)
                   \o OrEmpty(x.summary_3) \o OrEmpty(x.target) \o OrEmpty(x.tags)
    IN  {all[i] : i \in DOMAIN all}

\* The records the search text alone decides on.
SearchDecides(x) == StageOk(x) /\ ActionOk(x) /\ Trim(q) /= ""

\* C2 as stated: a record matches a search text exactly when the text is a
\* substring of one single field among title, law name, summary entries,
\* targets and tags.
C2_SingleFieldOnly ==
    \A x \in Records :
        SearchDecides(x) =>
            (Count(filtered, x) > 0
                <=> \E f \in ClaimedFields(x) : Includes(f, Trim(q)))

\* C2 as amended: a text that is a substring of one field among title,
\* topic, law_family, summary_3, target and tags matches; a text without a
\* space matches in no other way; only a text with a space may match across
\* fields, which the blob joins by spaces.
C2_SearchOverBlob ==
    \A x \in Records :
        SearchDecides(x) =>
            LET inField == \E f \in SearchedFields(x) : Includes(f, Trim(q))
                inResult == Count(filtered, x) > 0
            IN  /\ inField => inResult
                /\ inResult => inField \/ Includes(Trim(q), " ")

\* C2 witness: a record is returned for a text none of its fields holds.
C2_Witness ==
    /\ q = "B C"
    /\ \E i \in DOMAIN filtered :
           /\ filtered[i] = ItemA
           /\ \A f \in SearchedFields(ItemA) : ~Includes(f, "B C")

\* The records with one of the four actions.
HasKnownAction(x) == x.action /= Missing /\ x.action[1] \in ActionOptions

\* C3: of two returned records with one of the four actions, the one of the
\* more urgent tier comes first.
C3_UrgencyDominates ==
    \A i, j \in DOMAIN filtered :
        /\ HasKnownAction(filtered[i])
        /\ HasKnownAction(filtered[j])
        /\ ActScore(filtered[i]) > ActScore(filtered[j])
        => i < j

\* The days since updated_at of a record whose updated_at is a date, or is
\* missing.
HasDays(x) == x.updated_at = Missing \/ x.updated_at[1].parses
DaysSince(x) ==
    IF x.updated_at = Missing THEN 0
    ELSE daysBetween(x.updated_at[1], NowString(Today)).v

\* C4: of two returned records of the same tier, the one with fewer days
\* since updated_at comes first.
C4_RecencyBreaksTies ==
    \A i, j \in DOMAIN filtered :
        /\ HasDays(filtered[i])
        /\ HasDays(filtered[j])
        /\ ActScore(filtered[i]) = ActScore(filtered[j])
        /\ DaysSince(filtered[i]) < DaysSince(filtered[j])
        => i < j

\* The first and the last place of x in arr.
FirstAt(arr, x) == CHOOSE i \in DOMAIN arr : arr[i] = x /\ \A k \in 1..(i - 1) : arr[k] /= x
LastAt(arr, x) == CHOOSE i \in DOMAIN arr : arr[i] = x /\ \A k \in (i + 1)..Len(arr) : arr[k] /= x

C6_QueryReadOnly ==
    [][q' /= q \/ process' /= process \/ action' /= action => items' = items]_vars

\* C6 witness: a query has put the three records of the snapshot in another
\* order.
C6_Witness ==
    /\ fetchState = "done"
    /\ Len(items) = 3
    /\ Len(filtered) = 3
    /\ filtered /= items
    /\ process /= "all"

\* The snapshots there are: the empty one of the mount, and the loaded one.
Snapshots ==
    {InitialItems} \cup IF response = Missing THEN {} ELSE {ArrayOrEmpty(response[1])}

\* C8: the snapshot is the one before the load or the loaded one, whole, and
\* the result is a result of the query over that one snapshot.
C8_OneWholeSnapshot ==
    /\ items \in Snapshots
    /\ fetchState = "done" => items = ArrayOrEmpty(response[1])
    /\ filtered \in Filtered(items, q, process, action, Today)
    /\ \A i \in DOMAIN filtered : Count(items, filtered[i]) > 0

\* C8 witness: after the load, a query returns records of the loaded
\* snapshot.
C8_Witness ==
    /\ fetchState = "done"
    /\ Len(items) = 3
    /\ Len(filtered) = 2
    /\ q /= ""

\* A filter that is neither "all" nor an option of its select.
UnknownProcess == process \notin ProcessOptions \cup {"all"}
UnknownAction == action \notin ActionOptions \cup {"all"}

C10_StageAndActionPopulated ==
    \A x \in Records :
        /\ x.process /= Missing /\ x.process[1] \in ProcessOptions
        /\ x.action /= Missing /\ x.action[1] \in ActionOptions

\* C10 as amended: stage and action of a stored record may be missing or
\* unknown; every returned record is ranked in one of the four tiers, as
\* WATCH when it has no action, and in the lowest tier when its action is
\* none of the four.
C10_EveryRecordRanked ==
    \A i \in DOMAIN filtered :
        LET x == filtered[i]
        IN  /\ Act(x) /= ""
            /\ ActScore(x) \in 1..4
            /\ x.action = Missing => ActScore(x) = 2
            /\ Act(x) \notin ActionOptions => ActScore(x) = 1

\* C10 witness: a record without action is returned.
C10_Witness ==
    \E i \in DOMAIN filtered : filtered[i].action = Missing

\* C12: a failed load leaves the snapshot as it was before the load: the
\* step in which the fetch fails changes no record of it, and the result
\* rendered after it is a result of the query over that snapshot.
C12_FailedLoadKeepsSnapshot ==
    [][fetchState = "pending" /\ fetchState' = "failed" =>
           /\ items' = items
           /\ filtered' \in Filtered(items, q, process, action, Today)]_vars

\* C12 witness: the load has failed, and a query with a search text reads
\* the snapshot there was before it.
C12_Witness ==
    /\ fetchState = "failed"
    /\ items = InitialItems
    /\ q /= ""
    /\ filtered \in Filtered(InitialItems, q, process, action, Today)

\* Whether no two objects of array arr have the same id.
UniqueIds(arr) ==
    \A i, j \in DOMAIN arr :
        ~arr[i].null /\ ~arr[j].null /\ arr[i].id = arr[j].id => i = j

\* C11: no two records of the snapshot have the same id, and so no two
\* records of a query result have.
C11_IdsUnique ==
    /\ UniqueIds(items)
    /\ UniqueIds(filtered)

\* A text that is empty or holds only spaces.
IsBlank(s) == \A i \in 1..Len(s) : SubSeq(s, i, i) = " "

\* The number of objects of the snapshot.
RecordCount == Cardinality({i \in DOMAIN items : ~items[i].null})

\* The query of LawTracker neither loses nor duplicates: under every filter
\* the result holds only records of the snapshot, none more often than the
\* snapshot holds it; with both filters "all" and a search text that is
\* empty or only spaces it holds every record of the snapshot as often as
\* the snapshot does, and nothing else.
LawTrackerNoLoss ==
    /\ \A i \in DOMAIN filtered : filtered[i] \in Items /\ ~filtered[i].null
    /\ \A x \in Items : Count(filtered, x) <= Count(items, x)
    /\ process = "all" /\ action = "all" /\ IsBlank(q) =>
           /\ \A x \in Items : ~x.null => Count(filtered, x) = Count(items, x)
           /\ Len(filtered) = RecordCount

\* The tier the ranking scores a record in.
TierOf(x) ==
    LET actScore == ActScore(x)
    IN  IF actScore = 4 THEN "ACT_NOW"
        ELSE IF actScore = 3 THEN "PREPARE"
        ELSE IF actScore = 2 THEN "WATCH"
        ELSE "CLOSE"

\* C18: with the action filter at one of the four tiers, a record that
\* meets the stage filter and the search text is returned exactly when the
\* ranking scores it in that tier, also when it has no action or an action
\* that is none of the four.
C18_FilterAgreesWithRank ==
    action \in ActionOptions =>
        \A x \in Records :
            StageOk(x) /\ SearchOk(x) =>
                (Count(filtered, x) > 0 <=> TierOf(x) = action)

-----------------------------------------------------------------------------
(* Properties of the query of SafetyLawTracker.                            *)

\* The texts of a revision the search is said to read.
ClaimedTexts(revision) ==
    {revision.title, revision.lawName}
        \cup {OrEmpty(revision.highlights)[i] : i \in DOMAIN OrEmpty(revision.highlights)}

\* C7: on the fixture, stage "promulgated" with search text "化学物質"
\* returns the promulgated revisions one of whose texts holds "化学物質".
C7_FixtureQuery ==
    selectedStage = "promulgated" /\ searchTerm = TermKagakuBusshitsu =>
        filteredRevisions =
            SelectSeq(sampleRevisions,
                      LAMBDA r : /\ r.stage = "promulgated"
                                 /\ \E t \in ClaimedTexts(r) :
                                        Includes(t, TermKagakuBusshitsu))

\* A text of the fixture that is empty or holds only spaces.
IsBlankText(term) == \A i \in DOMAIN term : term[i] = 32

\* The query of SafetyLawTracker neither loses nor duplicates: the result
\* holds only revisions of the fixture, none twice; with stage "all" and a
\* search text that is empty or only spaces it holds each of them once.
SafetyLawTrackerNoLoss ==
    /\ \A i \in DOMAIN filteredRevisions :
           Count(filteredRevisions, filteredRevisions[i])
               <= Count(sampleRevisions, filteredRevisions[i])
    /\ selectedStage = "all" /\ IsBlankText(searchTerm) =>
           /\ \A i \in DOMAIN sampleRevisions :
                  Count(filteredRevisions, sampleRevisions[i])
                      = Count(sampleRevisions, sampleRevisions[i])
           /\ Len(filteredRevisions) = Len(sampleRevisions)

\* C17: the query neither loses nor duplicates records, in LawTracker and
\* in SafetyLawTracker: the result holds only records of the snapshot, none
\* more often than the snapshot; with no filter and a search text that is
\* empty or only whitespace it holds every record of the snapshot once.
C17_NoLossNoDuplicate ==
    /\ LawTrackerNoLoss
    /\ SafetyLawTrackerNoLoss

\* The sum of the numbers of a sequence.
RECURSIVE SumOf(_)
SumOf(ns) == IF Len(ns) = 0 THEN 0 ELSE Head(ns) + SumOf(Tail(ns))

\* C16: whatever search text and stage filter are applied, the count shown
\* for each of the six stages is the number of revisions of that stage in
\* the whole snapshot, and the six counts add up to the number of
\* revisions of the snapshot.
C16_CountsOverSnapshot ==
    /\ \A i \in DOMAIN revisionStages :
           stageCounts[i] = StageCount(sampleRevisions, revisionStages[i])
    /\ SumOf(stageCounts) = Len(sampleRevisions)

\* C16 witness: a search text and a stage filter are applied and leave one
\* revision of the snapshot.
C16_Witness ==
    /\ searchTerm /= <<>>
    /\ selectedStage /= "all"
    /\ Len(filteredRevisions) = 1
    /\ SumOf(stageCounts) > 1

-----------------------------------------------------------------------------
(* Properties of the refresh pipeline.                                     *)

\* C13: a record is in the store exactly while it has been reported and
\* fewer than RetentionThreshold refreshes in a row have been written since
\* without it: it is there after RetentionThreshold - 1 misses and gone
\* after the next; its miss counter is the number of those refreshes, zero
\* again once it is reported.
C13_Retention ==
    \A id \in RecordIds :
        /\ id \in DOMAIN store
               <=> sightings[id].seen /\ sightings[id].unseen < RetentionThreshold
        /\ id \in DOMAIN store => store[id].misses = sightings[id].unseen

\* C13 witness: one record has just been dropped with its last miss, while
\* another, one miss short of the threshold, is still there.
C13_Witness ==
    \E a, b \in RecordIds :
        /\ sightings[a].seen
        /\ sightings[a].unseen = RetentionThreshold
        /\ a \notin DOMAIN store
        /\ b \in DOMAIN store
        /\ store[b].misses = RetentionThreshold - 1

\* C14: a tag the operator set on a record stays on it, step by step, as
\* long as the record is in the store, unless the step is the operator
\* clearing that tag; so also in the step that writes a refresh.
C14_TagsPreserved ==
    [][\A id \in RecordIds, t \in OperatorTags :
           /\ id \in DOMAIN store
           /\ t \in store[id].operatorTags
           /\ id \in DOMAIN store'
           /\ ~ClearTag(id, t)
           => t \in TagsOf(store'[id])]_vars

\* C14 witness: a refresh is about to write a new description of a record
\* that carries the operator's tag, and the merged record carries it.
C14_Witness ==
    \E r \in Refreshers, id \in RecordIds :
        /\ pc[r] = "merged"
        /\ id \in DOMAIN store
        /\ id \in DOMAIN work[r].merged
        /\ "reviewed" \in store[id].operatorTags
        /\ work[r].merged[id].description /= store[id].description
        /\ "reviewed" \in TagsOf(work[r].merged[id])

\* C15: at most one refresh is in flight, and the merged set a refresh is
\* about to write is the merge with the snapshot as it is now: no other
\* write came between its merge and its write.
C15_OneRefreshAtATime ==
    /\ Cardinality(InFlight) <= 1
    /\ \A r \in Refreshers :
           pc[r] = "merged" => work[r].merged = merge(store, work[r].incoming)

\* C15 witness: a refresh was requested while another had merged and not
\* yet written; it is queued.
C15_Witness ==
    \E r, o \in Refreshers :
        /\ pc[r] = "merged"
        /\ pc[o] = "waiting"
        /\ work[r].merged /= store

=============================================================================
